---- MODULE Spec2Model ----
(***************************************************************************)
(* A model of the Huffman codec of lib/huffman.ts and of the calls the     *)
(* page (pages/Index.tsx) makes into it.                                   *)
(*                                                                         *)
(* Conventions.                                                            *)
(*  - A character (one code point of a JS string) is a TLA+ string that    *)
(*    names it: a printable ASCII character is named by itself (the grave  *)
(*    accent, which the language cannot quote, is named "U+0060"), U+00E9  *)
(*    is named "U+00E9", U+FFFD is named "U+FFFD".                         *)
(*  - A JS string is a sequence of characters; a binary string is a        *)
(*    sequence of the characters "0" and "1".                              *)
(*  - A plain JS object ({}) is the sequence of its own properties, each   *)
(*    [key, val], in the order Object.keys and JSON.stringify enumerate    *)
(*    them.                                                                *)
(*  - Arrays of the source are 0-based: At(h, i) reads element i.          *)
(***************************************************************************)
EXTENDS Integers, Sequences, FiniteSets, TLC

\* ------------------------------------------------------------------ bounds
\* Longest input text, in symbols.
MaxLen == 4
\* Largest count in a frequency table handed to buildHuffmanTree directly.
MaxFreq == 4

\* Longest input text of the calls of decompress with arbitrary arguments.
MaxShortLen == 2
\* Longest payload of those calls, in bytes.
MaxPayload == 2
\* The most nodes inserted into a heap that is driven call by call.
MaxInserts == 6
\* The largest frequency of such a node.
MaxHeapFreq == 3

\* The symbols of the input texts: a letter, an array-index key, a character
\* JSON escapes, and a character whose UTF-8 encoding takes two bytes.
Alphabet == {"a", "1", "\"", "U+00E9"}

\* The symbols of the frequency tables handed to buildHuffmanTree directly.
TreeAlphabet == {"a", "b", "c", "1", "2"}

\* ------------------------------------------------------ values of the source
\* null, for a HuffmanNode | null.
Null == [null |-> TRUE]
\* null, for HuffmanNode.char (string | null); no character has this name.
NullChar == "null"

Max2(a, b) == IF a > b THEN a ELSE b

\* ----------------------------------------------------------- plain objects
DigitChars == <<"0", "1", "2", "3", "4", "5", "6", "7", "8", "9">>

IsDigit(c) == \E i \in 1..10 : DigitChars[i] = c
DigitValue(c) == (CHOOSE i \in 1..10 : DigitChars[i] = c) - 1

\* The number a string of digits denotes.
RECURSIVE DecimalValue(_)
DecimalValue(str) ==
  IF Len(str) = 0 THEN 0
  ELSE 10 * DecimalValue(SubSeq(str, 1, Len(str) - 1)) + DigitValue(str[Len(str)])

\* Whether a property key (a string) is an array index, a canonical numeric
\* string: the engine enumerates these keys first, in ascending numeric order,
\* and the other keys after them in creation order. The model has no key of
\* ten digits or more.
IsArrayIndex(str) ==
  /\ Len(str) > 0 /\ Len(str) < 10
  /\ \A i \in 1..Len(str) : IsDigit(str[i])
  /\ (Len(str) = 1 \/ str[1] # "0")

\* A property list with property p put in after its first n properties.
InsertAt(obj, n, p) == SubSeq(obj, 1, n) \o <<p>> \o SubSeq(obj, n + 1, Len(obj))

HasProp(obj, k) == \E i \in 1..Len(obj) : obj[i].key = k
PropIndex(obj, k) == CHOOSE i \in 1..Len(obj) : obj[i].key = k
\* obj[k], for a key the object has.
GetProp(obj, k) == obj[PropIndex(obj, k)].val
\* Object.keys(obj)
Keys(obj) == [i \in 1..Len(obj) |-> obj[i].key]
KeySet(obj) == {obj[i].key : i \in 1..Len(obj)}

\* The keys of a FrequencyMap or CodeMap are characters: the key of character
\* k is the string <<k>>. The number of properties that stay in front of a
\* new property k:
InsertPoint(obj, k) ==
  IF IsArrayIndex(<<k>>)
  THEN Cardinality({i \in 1..Len(obj) :
                      IsArrayIndex(<<obj[i].key>>) /\ DigitValue(obj[i].key) < DigitValue(k)})
  ELSE Len(obj)

\* obj[k] = v
SetProp(obj, k, v) ==
  IF HasProp(obj, k)
  THEN [obj EXCEPT ![PropIndex(obj, k)].val = v]
  ELSE InsertAt(obj, InsertPoint(obj, k), [key |-> k, val |-> v])

\* ------------------------------------------------------------------ MinHeap
At(h, i) == h[i + 1]

Swap(h, i, j) == [h EXCEPT ![i + 1] = h[j + 1], ![j + 1] = h[i + 1]]

\* bubbleUp that leaves the pushed node at the end of the array.
bubbleUp_Stay(h, index) == h

RECURSIVE bubbleUp(_, _)
bubbleUp(h, index) ==
  IF index > 0
  THEN LET parentIndex == (index - 1) \div 2
       IN IF At(h, parentIndex).freq <= At(h, index).freq
          THEN h
          ELSE bubbleUp(Swap(h, parentIndex, index), parentIndex)
  ELSE h

\* bubbleDown with the comparisons turned round (> for <).
RECURSIVE bubbleDown_Greater(_, _)
bubbleDown_Greater(h, index) ==
  LET length == Len(h)
      leftChild == 2 * index + 1
      rightChild == 2 * index + 2
      s1 == IF leftChild < length /\ At(h, leftChild).freq > At(h, index).freq
            THEN leftChild ELSE index
      smallest == IF rightChild < length /\ At(h, rightChild).freq > At(h, s1).freq
                  THEN rightChild ELSE s1
  IN IF smallest = index
     THEN h
     ELSE bubbleDown_Greater(Swap(h, smallest, index), smallest)

\* bubbleDown that looks at the left child only.
RECURSIVE bubbleDown_LeftOnly(_, _)
bubbleDown_LeftOnly(h, index) ==
  LET leftChild == 2 * index + 1
  IN IF leftChild < Len(h) /\ At(h, leftChild).freq < At(h, index).freq
     THEN bubbleDown_LeftOnly(Swap(h, leftChild, index), leftChild)
     ELSE h

RECURSIVE bubbleDown(_, _)
bubbleDown(h, index) ==
  LET length == Len(h)
      leftChild == 2 * index + 1
      rightChild == 2 * index + 2
      s1 == IF leftChild < length /\ At(h, leftChild).freq < At(h, index).freq
            THEN leftChild ELSE index
      smallest == IF rightChild < length /\ At(h, rightChild).freq < At(h, s1).freq
                  THEN rightChild ELSE s1
  IN IF smallest = index
     THEN h
     ELSE bubbleDown(Swap(h, smallest, index), smallest)

insert(h, node) == bubbleUp(Append(h, node), Len(h))

\* extractMin that pops the end of the array.
extractMin_Last(h) ==
  IF Len(h) = 0 THEN [min |-> Null, heap |-> h]
  ELSE [min |-> h[Len(h)], heap |-> SubSeq(h, 1, Len(h) - 1)]

\* extractMin: the node returned (min) and the heap left (heap).
extractMin(h) ==
  IF Len(h) = 0 THEN [min |-> Null, heap |-> h]
  ELSE IF Len(h) = 1 THEN [min |-> h[1], heap |-> <<>>]
  ELSE LET last == h[Len(h)]
           popped == SubSeq(h, 1, Len(h) - 1)
       IN [min |-> h[1], heap |-> bubbleDown([popped EXCEPT ![1] = last], 0)]

\* ---------------------------------------------------------------- node ids
\* `node_${n}`
NodeId(n) == <<"node_", n>>

\* -------------------------------------------------------- calculateFrequencies
RECURSIVE CountFrom(_, _, _)
CountFrom(text, i, frequencies) ==
  IF i > Len(text) THEN frequencies
  ELSE LET char == text[i]
           old == IF HasProp(frequencies, char) THEN GetProp(frequencies, char) ELSE 0
       IN CountFrom(text, i + 1, SetProp(frequencies, char, old + 1))

calculateFrequencies(text) == CountFrom(text, 1, <<>>)

\* ------------------------------------------------------------ buildHuffmanTree
Leaf(char, freq, n) ==
  [char |-> char, freq |-> freq, left |-> Null, right |-> Null, id |-> NodeId(n)]

\* An internal node that takes its left child's frequency.
Internal_LeftFreq(left, right, freq, n) ==
  [char |-> NullChar, freq |-> left.freq, left |-> left, right |-> right,
   id |-> NodeId(n)]

Internal(left, right, freq, n) ==
  [char |-> NullChar, freq |-> freq, left |-> left, right |-> right, id |-> NodeId(n)]

\* The loop over chars: the i-th leaf gets the counter's value, which was
\* start before the loop.
RECURSIVE InsertLeaves(_, _, _, _)
InsertLeaves(frequencies, i, heap, start) ==
  IF i > Len(frequencies) THEN heap
  ELSE InsertLeaves(frequencies, i + 1,
                    insert(heap, Leaf(frequencies[i].key, frequencies[i].val,
                                      start + i - 1)),
                    start)

\* One iteration of the merge loop with the two children changing places.
MergeStep_Swapped(heap, counter) ==
  LET e1 == extractMin(heap)
      e2 == extractMin(e1.heap)
      parent == Internal(e2.min, e1.min, e1.min.freq + e2.min.freq, counter)
  IN [heap |-> insert(e2.heap, parent), counter |-> counter + 1,
      left |-> e1.min, right |-> e2.min, rest |-> e2.heap, parent |-> parent]

\* One iteration of the merge loop: the heap and the id counter after it, with
\* the loop's locals left, right and parent and the heap between the second
\* extractMin and the insert (rest).
MergeStep(heap, counter) ==
  LET e1 == extractMin(heap)
      e2 == extractMin(e1.heap)
      parent == Internal(e1.min, e2.min, e1.min.freq + e2.min.freq, counter)
  IN [heap |-> insert(e2.heap, parent), counter |-> counter + 1,
      left |-> e1.min, right |-> e2.min, rest |-> e2.heap, parent |-> parent]

RECURSIVE MergeLoop(_, _)
MergeLoop(heap, counter) ==
  IF Len(heap) > 1
  THEN LET s == MergeStep(heap, counter) IN MergeLoop(s.heap, s.counter)
  ELSE [tree |-> extractMin(heap).min, counter |-> counter]

\* The counter left as the call found it.
ResetCounter_Kept(counter) == counter

\* nodeIdCounter = 0, the first statement of buildHuffmanTree.
ResetCounter(counter) == 0

\* buildHuffmanTree without its single character case.
buildHuffmanTree_NoWrapper(frequencies, nodeIds) ==
  LET start == ResetCounter(nodeIds)
  IN IF Len(frequencies) = 0 THEN [tree |-> Null, counter |-> start]
     ELSE MergeLoop(InsertLeaves(frequencies, 1, <<>>, start),
                    start + Len(frequencies))

\* buildHuffmanTree(frequencies) called when the module's nodeIdCounter holds
\* nodeIds: the tree returned and the value the counter is left with.
buildHuffmanTree(frequencies, nodeIds) ==
  IF Len(frequencies) = 0 THEN [tree |-> Null, counter |-> ResetCounter(nodeIds)]
  ELSE LET start == ResetCounter(nodeIds)
           heap == InsertLeaves(frequencies, 1, <<>>, start)
           counter == start + Len(frequencies)
       IN IF Len(heap) = 1
          THEN LET node == extractMin(heap).min
               IN [tree |-> Internal(node, Null, node.freq, counter),
                   counter |-> counter + 1]
          ELSE MergeLoop(heap, counter)

\* ---------------------------------------------------------------- generateCodes
\* traverse with '0' appended on the way right as well.
RECURSIVE traverse_SameBit(_, _, _)
traverse_SameBit(node, code, codes) ==
  IF node.char # NullChar
  THEN SetProp(codes, node.char, IF code = <<>> THEN <<"0">> ELSE code)
  ELSE LET afterLeft == IF node.left # Null
                        THEN traverse_SameBit(node.left, Append(code, "0"), codes)
                        ELSE codes
       IN IF node.right # Null
          THEN traverse_SameBit(node.right, Append(code, "0"), afterLeft)
          ELSE afterLeft

\* traverse with the right child visited only where there is no left child.
RECURSIVE traverse_ElseRight(_, _, _)
traverse_ElseRight(node, code, codes) ==
  IF node.char # NullChar
  THEN SetProp(codes, node.char, IF code = <<>> THEN <<"0">> ELSE code)
  ELSE IF node.left # Null
  THEN traverse_ElseRight(node.left, Append(code, "0"), codes)
  ELSE IF node.right # Null
  THEN traverse_ElseRight(node.right, Append(code, "1"), codes)
  ELSE codes

RECURSIVE traverse(_, _, _)
traverse(node, code, codes) ==
  IF node.char # NullChar
  THEN SetProp(codes, node.char, IF code = <<>> THEN <<"0">> ELSE code)
  ELSE LET afterLeft == IF node.left # Null
                        THEN traverse(node.left, Append(code, "0"), codes)
                        ELSE codes
       IN IF node.right # Null
          THEN traverse(node.right, Append(code, "1"), afterLeft)
          ELSE afterLeft

generateCodes(tree) == IF tree = Null THEN <<>> ELSE traverse(tree, <<>>, <<>>)

\* ------------------------------------------------- binary strings and bytes
\* The number a string of binary digits denotes.
RECURSIVE BinaryValue(_)
BinaryValue(bits) ==
  IF Len(bits) = 0 THEN 0
  ELSE 2 * BinaryValue(SubSeq(bits, 1, Len(bits) - 1))
       + (IF bits[Len(bits)] = "1" THEN 1 ELSE 0)

\* The index after the binary digits that start at i.
RECURSIVE BinaryDigitsEnd(_, _)
BinaryDigitsEnd(str, i) ==
  IF i <= Len(str) /\ str[i] \in {"0", "1"} THEN BinaryDigitsEnd(str, i + 1) ELSE i

\* byteArray[i] = parseInt(str, 2), for a str of at most 8 characters:
\* parseInt reads the binary digits str starts with, and is NaN, which a
\* Uint8Array stores as 0, where it starts with none.
ParseBinary(str) ==
  LET end == BinaryDigitsEnd(str, 1)
  IN IF end = 1 THEN 0 ELSE BinaryValue(SubSeq(str, 1, end - 1))

\* byte.toString(2)
RECURSIVE ToBinary(_)
ToBinary(n) ==
  IF n < 2 THEN <<DigitChars[n + 1]>>
  ELSE Append(ToBinary(n \div 2), DigitChars[(n % 2) + 1])

\* s.padStart(width, c)
RECURSIVE PadStart(_, _, _)
PadStart(s, width, c) == IF Len(s) >= width THEN s ELSE PadStart(<<c>> \o s, width, c)

\* s.padEnd(width, c)
RECURSIVE PadEnd(_, _, _)
PadEnd(s, width, c) == IF Len(s) >= width THEN s ELSE PadEnd(Append(s, c), width, c)

\* ------------------------------------------------- TextEncoder / TextDecoder
\* The printable ASCII characters, in code order from 32 (space).
AsciiPrintable ==
  << " ", "!", "\"", "#", "$", "%", "&", "'", "(", ")", "*", "+", ",", "-", ".", "/",
     "0", "1", "2", "3", "4", "5", "6", "7", "8", "9",
     ":", ";", "<", "=", ">", "?", "@",
     "A", "B", "C", "D", "E", "F", "G", "H", "I", "J", "K", "L", "M",
     "N", "O", "P", "Q", "R", "S", "T", "U", "V", "W", "X", "Y", "Z",
     "[", "\\", "]", "^", "_", "U+0060",
     "a", "b", "c", "d", "e", "f", "g", "h", "i", "j", "k", "l", "m",
     "n", "o", "p", "q", "r", "s", "t", "u", "v", "w", "x", "y", "z",
     "{", "|", "}", "~" >>

\* The UTF-8 bytes of one character of the model.
Utf8Char(c) ==
  CASE c = "U+00E9" -> <<195, 169>>
    [] c = "U+FFFD" -> <<239, 191, 189>>
    [] c = "\t" -> <<9>>
    [] c = "\n" -> <<10>>
    [] c = "\r" -> <<13>>
    [] OTHER -> <<31 + (CHOOSE i \in 1..Len(AsciiPrintable) : AsciiPrintable[i] = c)>>

\* The concatenation of the sequences seqs[lo], ..., seqs[hi].
RECURSIVE FlattenRange(_, _, _)
FlattenRange(seqs, lo, hi) ==
  IF lo > hi THEN <<>>
  ELSE IF lo = hi THEN seqs[lo]
  ELSE LET mid == (lo + hi) \div 2
       IN FlattenRange(seqs, lo, mid) \o FlattenRange(seqs, mid + 1, hi)

Flatten(seqs) == FlattenRange(seqs, 1, Len(seqs))

\* new TextEncoder().encode(str)
TextEncode(str) == Flatten([i \in 1..Len(str) |-> Utf8Char(str[i])])

\* What byte i adds to the decoded text. The byte sequences the model decodes
\* are encodings of its own characters; any other byte decodes to U+FFFD, as
\* an ill-formed sequence does. A byte that continues a character adds
\* nothing: 169 after 195, and 191, 189 after 239.
DecodedAt(bytes, i) ==
  LET b == bytes[i]
      n == Len(bytes)
  IN CASE b >= 32 /\ b <= 126 -> <<AsciiPrintable[b - 31]>>
       [] b = 9 -> <<"\t">>
       [] b = 10 -> <<"\n">>
       [] b = 13 -> <<"\r">>
       [] b = 195 /\ i + 1 <= n /\ bytes[i + 1] = 169 -> <<"U+00E9">>
       [] b = 169 /\ i > 1 /\ bytes[i - 1] = 195 -> <<>>
       [] b = 239 /\ i + 2 <= n /\ bytes[i + 1] = 191 /\ bytes[i + 2] = 189 -> <<"U+FFFD">>
       [] b = 191 /\ i > 1 /\ i + 1 <= n /\ bytes[i - 1] = 239 /\ bytes[i + 1] = 189 -> <<>>
       [] b = 189 /\ i > 2 /\ bytes[i - 2] = 239 /\ bytes[i - 1] = 191 -> <<>>
       [] OTHER -> <<"U+FFFD">>

\* new TextDecoder().decode(bytes)
TextDecode(bytes) == Flatten([i \in 1..Len(bytes) |-> DecodedAt(bytes, i)])

\* --------------------------------------------------------------------- compress
\* The binary string of the text: the codes of its characters, concatenated.
\* A character without a code adds the text of undefined.
UndefinedText == <<"u", "n", "d", "e", "f", "i", "n", "e", "d">>

RECURSIVE EncodeText(_, _)
EncodeText(text, codeMap) ==
  IF Len(text) = 0 THEN <<>>
  ELSE (IF HasProp(codeMap, text[1]) THEN GetProp(codeMap, text[1]) ELSE UndefinedText)
       \o EncodeText(Tail(text), codeMap)

\* The padding without its outer % 8.
PaddingOf_NoWrap(length) == 8 - (length % 8)

PaddingOf(length) == (8 - (length % 8)) % 8

\* The bytes of a binary string whose length is a multiple of 8.
PackBytes(binaryString) ==
  [i \in 1..(Len(binaryString) \div 8) |->
     ParseBinary(SubSeq(binaryString, 8 * (i - 1) + 1, 8 * i))]

\* ((originalSize - compressedSize) / originalSize) * 100, as the exact
\* fraction num / den; the literal 0 is 0 / 1.
RatioOf(originalSize, compressedSize) ==
  IF originalSize > 0
  THEN [num |-> (originalSize - compressedSize) * 100, den |-> originalSize]
  ELSE [num |-> 0, den |-> 1]

compress(text, nodeIds) ==
  IF Len(text) = 0
  THEN [compressedData |-> <<>>, codeMap |-> <<>>, originalSize |-> 0,
        compressedSize |-> 0, compressionRatio |-> [num |-> 0, den |-> 1],
        tree |-> Null, frequencyMap |-> <<>>, paddingBits |-> 0]
  ELSE LET originalSize == Len(TextEncode(text))
           frequencyMap == calculateFrequencies(text)
           huffmanTree == buildHuffmanTree(frequencyMap, nodeIds).tree
           codeMap == generateCodes(huffmanTree)
           encoded == EncodeText(text, codeMap)
           paddingBits == PaddingOf(Len(encoded))
           binaryString == PadEnd(encoded, Len(encoded) + paddingBits, "0")
           byteArray == PackBytes(binaryString)
           compressedSize == Len(byteArray)
       IN [compressedData |-> byteArray, codeMap |-> codeMap,
           originalSize |-> originalSize, compressedSize |-> compressedSize,
           compressionRatio |-> RatioOf(originalSize, compressedSize),
           tree |-> huffmanTree, frequencyMap |-> frequencyMap,
           paddingBits |-> paddingBits]

\* ------------------------------------------------------------------- decompress
\* An exception that leaves the function.
Threw == [threw |-> TRUE]

\* The binary string of the bytes.
RECURSIVE UnpackBytes(_)
UnpackBytes(compressedData) ==
  IF Len(compressedData) = 0 THEN <<>>
  ELSE PadStart(ToBinary(compressedData[1]), 8, "0") \o UnpackBytes(Tail(compressedData))

\* The binary string with its padding left on.
RemovePadding_Kept(binaryString, paddingBits) == binaryString

\* binaryString.slice(0, -paddingBits), done when paddingBits > 0.
RemovePadding(binaryString, paddingBits) ==
  IF paddingBits > 0
  THEN SubSeq(binaryString, 1, Max2(Len(binaryString) - paddingBits, 0))
  ELSE binaryString

\* The test of the single character case: a left child that is a leaf and no
\* right child.
IsWrapper(node) ==
  node # Null /\ node.left # Null /\ node.right = Null /\ node.left.char # NullChar

\* One iteration of the decoding loop without the single character case.
BitStep_NoShortcut(bit, currentNode, result, root) ==
  IF currentNode = Null THEN Threw
  ELSE LET next == IF bit = "0" THEN currentNode.left ELSE currentNode.right
       IN IF next = Null THEN Threw
          ELSE IF next.char # NullChar
          THEN [currentNode |-> root, result |-> Append(result, next.char)]
          ELSE [currentNode |-> next, result |-> result]

\* One iteration of the decoding loop that stays at the leaf it reached.
BitStep_NoReset(bit, currentNode, result, root) ==
  IF currentNode = Null THEN Threw
  ELSE IF IsWrapper(currentNode)
  THEN [currentNode |-> currentNode, result |-> Append(result, currentNode.left.char)]
  ELSE LET next == IF bit = "0" THEN currentNode.left ELSE currentNode.right
       IN IF next = Null THEN Threw
          ELSE IF next.char # NullChar
          THEN [currentNode |-> next, result |-> Append(result, next.char)]
          ELSE [currentNode |-> next, result |-> result]

\* One iteration of the decoding loop, for one bit of the string: currentNode
\* and result after it. Reading a property of null throws.
BitStep(bit, currentNode, result, root) ==
  IF currentNode = Null THEN Threw
  ELSE IF IsWrapper(currentNode)
  THEN [currentNode |-> currentNode, result |-> Append(result, currentNode.left.char)]
  ELSE LET next == IF bit = "0" THEN currentNode.left ELSE currentNode.right
       IN IF next = Null THEN Threw
          ELSE IF next.char # NullChar
          THEN [currentNode |-> root, result |-> Append(result, next.char)]
          ELSE [currentNode |-> next, result |-> result]

\* The decoding loop reporting a failure when the bits end inside a code.
RECURSIVE DecodeBits_Strict(_, _, _, _, _)
DecodeBits_Strict(binaryString, i, currentNode, result, root) ==
  IF i > Len(binaryString)
  THEN [decompressedText |-> result, success |-> currentNode = root]
  ELSE LET step == BitStep(binaryString[i], currentNode, result, root)
       IN IF step = Threw THEN Threw
          ELSE DecodeBits_Strict(binaryString, i + 1, step.currentNode,
                                 step.result, root)

\* The decoding loop from bit i on.
RECURSIVE DecodeBits(_, _, _, _, _)
DecodeBits(binaryString, i, currentNode, result, root) ==
  IF i > Len(binaryString)
  THEN [decompressedText |-> result, success |-> TRUE]
  ELSE LET step == BitStep(binaryString[i], currentNode, result, root)
       IN IF step = Threw THEN Threw
          ELSE DecodeBits(binaryString, i + 1, step.currentNode, step.result, root)

\* decompress with a guard that tests the payload's length only.
decompress_NoTreeCheck(compressedData, huffmanTree, paddingBits) ==
  IF Len(compressedData) = 0
  THEN [decompressedText |-> <<>>, success |-> TRUE]
  ELSE DecodeBits(RemovePadding(UnpackBytes(compressedData), paddingBits), 1,
                  huffmanTree, <<>>, huffmanTree)

decompress(compressedData, huffmanTree, paddingBits) ==
  IF huffmanTree = Null \/ Len(compressedData) = 0
  THEN [decompressedText |-> <<>>, success |-> TRUE]
  ELSE DecodeBits(RemovePadding(UnpackBytes(compressedData), paddingBits), 1,
                  huffmanTree, <<>>, huffmanTree)

\* ------------------------------------------------------------------ JSON values
\* A value JSON.parse returns or JSON.stringify takes, tagged with its type.
\* An object's v is its property list, whose keys are strings; an array's v
\* is its elements.
JNumber(n) == [t |-> "number", v |-> n]
JString(str) == [t |-> "string", v |-> str]
JObject(props) == [t |-> "object", v |-> props]
JArray(items) == [t |-> "array", v |-> items]
JBoolean(b) == [t |-> "boolean", v |-> b]
JNull == [t |-> "null"]
\* What reading a property the value does not have gives.
Undefined == [t |-> "undefined"]

\* obj[k] = v, for an object whose keys are strings.
JsonInsertPoint(props, k) ==
  IF IsArrayIndex(k)
  THEN Cardinality({i \in 1..Len(props) :
                      IsArrayIndex(props[i].key) /\ DecimalValue(props[i].key) < DecimalValue(k)})
  ELSE Len(props)

JsonSetProp(props, k, v) ==
  IF HasProp(props, k)
  THEN [props EXCEPT ![PropIndex(props, k)].val = v]
  ELSE InsertAt(props, JsonInsertPoint(props, k), [key |-> k, val |-> v])

\* value.name, for a value that is not null or undefined.
ReadProp(j, name) ==
  IF j.t = "object" /\ HasProp(j.v, name) THEN GetProp(j.v, name) ELSE Undefined

\* A CodeMap and a FrequencyMap as JSON values.
CodeMapToJson(obj) ==
  JObject([i \in 1..Len(obj) |-> [key |-> <<obj[i].key>>, val |-> JString(obj[i].val)]])
FrequencyMapToJson(obj) ==
  JObject([i \in 1..Len(obj) |-> [key |-> <<obj[i].key>>, val |-> JNumber(obj[i].val)]])

\* Whether a JSON value is an object that maps characters to values of a type,
\* and the CodeMap or FrequencyMap it then is.
IsMapOf(j, type) ==
  /\ j.t = "object"
  /\ \A i \in 1..Len(j.v) : Len(j.v[i].key) = 1 /\ j.v[i].val.t = type
PlainMap(j) == [i \in 1..Len(j.v) |-> [key |-> j.v[i].key[1], val |-> j.v[i].val.v]]

\* --------------------------------------------------------------- JSON.stringify
\* The decimal digits of an integer.
RECURSIVE Decimal(_)
Decimal(n) ==
  IF n < 0 THEN <<"-">> \o Decimal(0 - n)
  ELSE IF n < 10 THEN <<DigitChars[n + 1]>>
  ELSE Append(Decimal(n \div 10), DigitChars[(n % 10) + 1])

\* QuoteJSONString, for the characters of the model.
QuoteChar(c) ==
  CASE c = "\"" -> <<"\\", "\"">>
    [] c = "\\" -> <<"\\", "\\">>
    [] c = "\n" -> <<"\\", "n">>
    [] c = "\r" -> <<"\\", "r">>
    [] c = "\t" -> <<"\\", "t">>
    [] OTHER -> <<c>>

RECURSIVE QuoteBody(_)
QuoteBody(str) == IF Len(str) = 0 THEN <<>> ELSE QuoteChar(str[1]) \o QuoteBody(Tail(str))

Quote(str) == <<"\"">> \o QuoteBody(str) \o <<"\"">>

RECURSIVE Stringify(_)
RECURSIVE StringifyProps(_, _)
RECURSIVE StringifyItems(_, _)
StringifyProps(props, i) ==
  IF i > Len(props) THEN <<>>
  ELSE (IF i > 1 THEN <<",">> ELSE <<>>)
       \o Quote(props[i].key) \o <<":">> \o Stringify(props[i].val)
       \o StringifyProps(props, i + 1)
StringifyItems(items, i) ==
  IF i > Len(items) THEN <<>>
  ELSE (IF i > 1 THEN <<",">> ELSE <<>>) \o Stringify(items[i]) \o StringifyItems(items, i + 1)
\* JSON.stringify(j)
Stringify(j) ==
  CASE j.t = "number" -> Decimal(j.v)
    [] j.t = "string" -> Quote(j.v)
    [] j.t = "boolean" -> IF j.v THEN <<"t", "r", "u", "e">> ELSE <<"f", "a", "l", "s", "e">>
    [] j.t = "null" -> <<"n", "u", "l", "l">>
    [] j.t = "array" -> <<"[">> \o StringifyItems(j.v, 1) \o <<"]">>
    [] j.t = "object" -> <<"{">> \o StringifyProps(j.v, 1) \o <<"}">>

\* ------------------------------------------------------------------- JSON.parse
\* The texts of the model hold no fraction, exponent, \u escape or \b, \f
\* escape. A parse step gives [ok, val, pos]: the value read and the index
\* after it, or ok = FALSE for a SyntaxError.
SyntaxError == [ok |-> FALSE]
Parsed(val, pos) == [ok |-> TRUE, val |-> val, pos |-> pos]

IsWhitespace(c) == c \in {" ", "\t", "\n", "\r"}

RECURSIVE SkipWhitespace(_, _)
SkipWhitespace(s, i) ==
  IF i <= Len(s) /\ IsWhitespace(s[i]) THEN SkipWhitespace(s, i + 1) ELSE i

\* Whether word stands in s at index i.
Matches(s, i, word) ==
  /\ i + Len(word) - 1 <= Len(s)
  /\ \A j \in 1..Len(word) : s[i + j - 1] = word[j]

\* The index after the digits that start at i.
RECURSIVE DigitsEnd(_, _)
DigitsEnd(s, i) == IF i <= Len(s) /\ IsDigit(s[i]) THEN DigitsEnd(s, i + 1) ELSE i

\* A number: -? (0 | [1-9][0-9]*)
ParseNumber(s, i) ==
  LET start == IF s[i] = "-" THEN i + 1 ELSE i
      end == DigitsEnd(s, start)
  IN IF end = start THEN SyntaxError
     ELSE IF s[start] = "0" /\ end > start + 1 THEN SyntaxError
     ELSE IF end <= Len(s) /\ s[end] \in {".", "e", "E"} THEN SyntaxError
     ELSE Parsed(JNumber((IF start > i THEN -1 ELSE 1) * DecimalValue(SubSeq(s, start, end - 1))),
                 end)

\* The characters of a string, from index i (after the opening quote) on.
RECURSIVE ParseStringBody(_, _, _)
ParseStringBody(s, i, acc) ==
  IF i > Len(s) THEN SyntaxError
  ELSE IF s[i] = "\"" THEN Parsed(acc, i + 1)
  ELSE IF s[i] \in {"\t", "\n", "\r"} THEN SyntaxError
  ELSE IF s[i] = "\\"
  THEN IF i + 1 > Len(s) THEN SyntaxError
       ELSE CASE s[i + 1] \in {"\"", "\\", "/"} -> ParseStringBody(s, i + 2, Append(acc, s[i + 1]))
              [] s[i + 1] = "n" -> ParseStringBody(s, i + 2, Append(acc, "\n"))
              [] s[i + 1] = "r" -> ParseStringBody(s, i + 2, Append(acc, "\r"))
              [] s[i + 1] = "t" -> ParseStringBody(s, i + 2, Append(acc, "\t"))
              [] OTHER -> SyntaxError
  ELSE ParseStringBody(s, i + 1, Append(acc, s[i]))

RECURSIVE ParseValue(_, _)
RECURSIVE ParseMembers(_, _, _)
RECURSIVE ParseElements(_, _, _)

\* The members of an object, from the key at index i0 on.
ParseMembers(s, i0, props) ==
  LET i == SkipWhitespace(s, i0)
  IN IF i > Len(s) \/ s[i] # "\"" THEN SyntaxError
     ELSE LET key == ParseStringBody(s, i + 1, <<>>)
          IN IF ~key.ok THEN SyntaxError
             ELSE LET c == SkipWhitespace(s, key.pos)
                  IN IF c > Len(s) \/ s[c] # ":" THEN SyntaxError
                     ELSE LET val == ParseValue(s, c + 1)
                          IN IF ~val.ok THEN SyntaxError
                             ELSE LET e == SkipWhitespace(s, val.pos)
                                      next == JsonSetProp(props, key.val, val.val)
                                  IN IF e > Len(s) THEN SyntaxError
                                     ELSE IF s[e] = "}" THEN Parsed(JObject(next), e + 1)
                                     ELSE IF s[e] = "," THEN ParseMembers(s, e + 1, next)
                                     ELSE SyntaxError

\* The elements of an array, from the value at index i0 on.
ParseElements(s, i0, items) ==
  LET val == ParseValue(s, i0)
  IN IF ~val.ok THEN SyntaxError
     ELSE LET e == SkipWhitespace(s, val.pos)
          IN IF e > Len(s) THEN SyntaxError
             ELSE IF s[e] = "]" THEN Parsed(JArray(Append(items, val.val)), e + 1)
             ELSE IF s[e] = "," THEN ParseElements(s, e + 1, Append(items, val.val))
             ELSE SyntaxError

ParseValue(s, i0) ==
  LET i == SkipWhitespace(s, i0)
  IN IF i > Len(s) THEN SyntaxError
     ELSE CASE s[i] = "{" ->
                 LET m == SkipWhitespace(s, i + 1)
                 IN IF m <= Len(s) /\ s[m] = "}" THEN Parsed(JObject(<<>>), m + 1)
                    ELSE ParseMembers(s, i + 1, <<>>)
            [] s[i] = "[" ->
                 LET m == SkipWhitespace(s, i + 1)
                 IN IF m <= Len(s) /\ s[m] = "]" THEN Parsed(JArray(<<>>), m + 1)
                    ELSE ParseElements(s, i + 1, <<>>)
            [] s[i] = "\"" ->
                 LET str == ParseStringBody(s, i + 1, <<>>)
                 IN IF str.ok THEN Parsed(JString(str.val), str.pos) ELSE SyntaxError
            [] s[i] = "-" \/ IsDigit(s[i]) -> ParseNumber(s, i)
            [] Matches(s, i, <<"n", "u", "l", "l">>) -> Parsed(JNull, i + 4)
            [] Matches(s, i, <<"t", "r", "u", "e">>) -> Parsed(JBoolean(TRUE), i + 4)
            [] Matches(s, i, <<"f", "a", "l", "s", "e">>) -> Parsed(JBoolean(FALSE), i + 5)
            [] OTHER -> SyntaxError

\* JSON.parse(s): the value, or SyntaxError.
JsonParse(s) ==
  LET val == ParseValue(s, 1)
  IN IF val.ok /\ SkipWhitespace(s, val.pos) > Len(s) THEN val ELSE SyntaxError

\* ------------------------------------------------------------ the container
\* new Uint8Array(new Uint32Array([n]).buffer), on a little-endian host; the
\* lengths of the model are below 2^31.
Uint32Bytes(n) ==
  <<n % 256, (n \div 256) % 256, (n \div 65536) % 256, (n \div 16777216) % 256>>

\* view.getUint32(0, true), for a buffer of four bytes or more.
GetUint32(data) == data[1] + 256 * data[2] + 65536 * data[3] + 16777216 * data[4]

CodeMapName == <<"c", "o", "d", "e", "M", "a", "p">>
PaddingBitsName == <<"p", "a", "d", "d", "i", "n", "g", "B", "i", "t", "s">>
FrequencyMapName == <<"f", "r", "e", "q", "u", "e", "n", "c", "y", "M", "a", "p">>

\* The metadata object createCompressedFile serialises.
Metadata(result) ==
  JObject(<< [key |-> CodeMapName, val |-> CodeMapToJson(result.codeMap)],
             [key |-> PaddingBitsName, val |-> JNumber(result.paddingBits)],
             [key |-> FrequencyMapName, val |-> FrequencyMapToJson(result.frequencyMap)] >>)

\* The buffer with metadataString.length in its header, not the byte length.
Container_StringLength(metadataString, compressedData) ==
  Uint32Bytes(Len(metadataString)) \o TextEncode(metadataString) \o compressedData

\* The buffer laid out as [4 bytes metadata length][metadata][compressed data].
Container(metadataString, compressedData) ==
  LET metadataBytes == TextEncode(metadataString)
  IN Uint32Bytes(Len(metadataBytes)) \o metadataBytes \o compressedData

\* The bytes of the Blob createCompressedFile returns.
createCompressedFile(result) ==
  Container(Stringify(Metadata(result)), result.compressedData)

\* The try block of parseCompressedFile: the object it returns, or Threw.
ParseTry(data) ==
  IF Len(data) < 4 THEN Threw
  ELSE LET metadataLength == GetUint32(data)
       IN IF 4 + metadataLength > Len(data) THEN Threw
          ELSE LET metadataString == TextDecode(SubSeq(data, 5, 4 + metadataLength))
                   metadata == JsonParse(metadataString)
               IN IF ~metadata.ok THEN Threw
                  ELSE IF metadata.val.t = "null" THEN Threw
                  ELSE [compressedData |-> SubSeq(data, 5 + metadataLength, Len(data)),
                        codeMap |-> ReadProp(metadata.val, CodeMapName),
                        paddingBits |-> ReadProp(metadata.val, PaddingBitsName),
                        frequencyMap |-> ReadProp(metadata.val, FrequencyMapName)]

\* parseCompressedFile without its catch clause.
parseCompressedFile_NoCatch(data) == ParseTry(data)

\* parseCompressedFile(data): the catch clause turns every exception into null.
parseCompressedFile(data) ==
  LET r == ParseTry(data) IN IF r = Threw THEN Null ELSE r

\* ------------------------------------------------------------------ the inputs
\* The input texts: every sequence of at most MaxLen symbols.
Texts == UNION {[1..n -> Alphabet] : n \in 0..MaxLen}

\* The frequency tables: every object whose keys are distinct symbols of
\* TreeAlphabet, in an order the engine can give them, with counts in
\* 1..MaxFreq.
IsInjective(q) == \A i, j \in 1..Len(q) : q[i] = q[j] => i = j

KeyOrders ==
  {q \in UNION {[1..n -> TreeAlphabet] : n \in 0..Cardinality(TreeAlphabet)} :
     IsInjective(q) /\ Keys(calculateFrequencies(q)) = q}

FrequencyTables ==
  UNION {{[i \in 1..Len(q) |-> [key |-> q[i], val |-> c[i]]] :
            c \in [1..Len(q) -> 1..MaxFreq]} : q \in KeyOrders}

\* The arguments of the calls of decompress that no compress produced.
ShortTexts == UNION {[1..n -> Alphabet] : n \in 0..MaxShortLen}
ByteSamples == {0, 90, 255}
Payloads == UNION {[1..n -> ByteSamples] : n \in 0..MaxPayload}
PaddingArgs == 0..9

\* Metadata texts a file other than one createCompressedFile wrote may hold:
\* the record with some of its three fields left out, values that are no
\* record, and a text that is no JSON.
FieldsKept(metadata, names) ==
  JObject(SelectSeq(metadata.v, LAMBDA p : p.key \in names))

ForeignMetadata(result) ==
  {Stringify(FieldsKept(Metadata(result), names)) :
     names \in (SUBSET {CodeMapName, PaddingBitsName, FrequencyMapName})
               \ {{CodeMapName, PaddingBitsName, FrequencyMapName}}}
  \cup {Stringify(JNull), Stringify(JNumber(7)), Stringify(JArray(<<>>)),
        <<"{", "\"", "c", "o", "d", "e", "M", "a", "p", "\"", ":">>}

\* ---------------------------------------------------------------------- state
VARIABLES
  pc,             \* what was called last
  text,           \* the input text
  result,         \* what compress(text) returned
  call,           \* the arguments of the last call of decompress
  decoded,        \* what that call returned
  file,           \* the bytes of the .huff file
  fileKind,       \* "written", "truncated" or "foreign"
  parsed,         \* what parseCompressedFile(file) returned
  restored,       \* what decompress returned in handleCompressedFileSelect
  frequencies,    \* the argument of the last direct call of buildHuffmanTree
  tree,           \* what that call returned
  codes,          \* what generateCodes(tree) returned
  nodeIdCounter,  \* the module's id counter
  heap,           \* the array of a MinHeap
  merges,         \* the iterations of the merge loop done so far
  walk,           \* the decoding loop: its bits, position, currentNode, result
  last,           \* the last step of a heap or a loop, with what it started from
  fileName,          \* Index: useState fileName
  originalText,      \* Index: useState originalText
  compressionResult, \* Index: useState compressionResult
  decompressedText,  \* Index: useState decompressedText
  mode,              \* Index: useState mode
  error,             \* FileUpload: useState error, of the instance mounted
  pending,           \* the file reads handleFile started that have not ended
  downloads          \* the .huff files the page has saved, by name

vars == <<pc, text, result, call, decoded, file, fileKind, parsed, restored,
          frequencies, tree, codes, nodeIdCounter, heap, merges, walk, last,
          fileName, originalText, compressionResult, decompressedText, mode,
          error, pending, downloads>>

\* The state of the page and of its upload zone.
ui == <<fileName, originalText, compressionResult, decompressedText, mode,
        error, pending, downloads>>

\* What the calls of the codec leave alone.
steps == <<heap, merges, walk, last>>

\* The state before any call.
Blank ==
  /\ result = Null /\ call = Null /\ decoded = Null
  /\ file = <<>> /\ fileKind = "none" /\ parsed = Null /\ restored = Null
  /\ tree = Null /\ codes = <<>> /\ nodeIdCounter = 0
  /\ heap = <<>> /\ merges = 0 /\ walk = Null /\ last = Null
  /\ fileName = Null /\ originalText = Null /\ compressionResult = Null
  /\ decompressedText = Null /\ mode = "idle" /\ error = Null /\ pending = {}
  /\ downloads = [n \in {} |-> <<>>]

\* ------------------------------------------------------------ the codec's calls
\* result = compress(text)
Compress ==
  /\ pc = "input"
  /\ result' = compress(text, nodeIdCounter)
  /\ nodeIdCounter' = IF Len(text) = 0 THEN nodeIdCounter
                      ELSE buildHuffmanTree(calculateFrequencies(text),
                                            nodeIdCounter).counter
  /\ pc' = "compressed"
  /\ UNCHANGED <<text, call, decoded, file, fileKind, parsed, restored,
                 frequencies, tree, codes>>
  /\ UNCHANGED steps
  /\ UNCHANGED ui

\* decompress(result.compressedData, result.tree, result.paddingBits)
Decompress ==
  /\ pc = "compressed"
  /\ call' = [compressedData |-> result.compressedData, tree |-> result.tree,
              paddingBits |-> result.paddingBits]
  /\ decoded' = decompress(result.compressedData, result.tree, result.paddingBits)
  /\ pc' = "decoded"
  /\ UNCHANGED <<text, result, file, fileKind, parsed, restored,
                 frequencies, tree, codes, nodeIdCounter>>
  /\ UNCHANGED steps
  /\ UNCHANGED ui

\* file = createCompressedFile(result)
CreateCompressedFile ==
  /\ pc = "compressed"
  /\ file' = createCompressedFile(result)
  /\ fileKind' = "written"
  /\ pc' = "file"
  /\ UNCHANGED <<text, result, call, decoded, parsed, restored,
                 frequencies, tree, codes, nodeIdCounter>>
  /\ UNCHANGED steps
  /\ UNCHANGED ui

\* The file is cut to its first n bytes.
Truncate ==
  /\ pc = "file" /\ fileKind = "written"
  /\ \E n \in 0..(Len(file) - 1) : file' = SubSeq(file, 1, n)
  /\ fileKind' = "truncated"
  /\ UNCHANGED <<pc, text, result, call, decoded, parsed, restored,
                 frequencies, tree, codes, nodeIdCounter>>
  /\ UNCHANGED steps
  /\ UNCHANGED ui

\* Another file with the same payload takes its place.
Replace ==
  /\ pc = "file" /\ fileKind = "written"
  /\ \E m \in ForeignMetadata(result) : file' = Container(m, result.compressedData)
  /\ fileKind' = "foreign"
  /\ UNCHANGED <<pc, text, result, call, decoded, parsed, restored,
                 frequencies, tree, codes, nodeIdCounter>>
  /\ UNCHANGED steps
  /\ UNCHANGED ui

\* parsed = parseCompressedFile(file)
ParseCompressedFile ==
  /\ pc = "file"
  /\ parsed' = parseCompressedFile(file)
  /\ pc' = "parsed"
  /\ UNCHANGED <<text, result, call, decoded, file, fileKind, restored,
                 frequencies, tree, codes, nodeIdCounter>>
  /\ UNCHANGED steps
  /\ UNCHANGED ui

\* handleCompressedFileSelect after a successful parse: the tree is rebuilt
\* from parsed.frequencyMap and the payload decoded with it. Object.keys of
\* undefined throws; an undefined paddingBits is not > 0, as 0 is not. A
\* frequencyMap or paddingBits of another type is outside the model.
RebuildAndDecompress ==
  /\ pc = "parsed" /\ parsed # Null
  /\ \/ /\ parsed.frequencyMap = Undefined
        /\ pc' = "threw"
        /\ UNCHANGED <<restored, frequencies, tree, nodeIdCounter>>
     \/ /\ IsMapOf(parsed.frequencyMap, "number")
        /\ parsed.paddingBits.t \in {"number", "undefined"}
        /\ LET frequencyMap == PlainMap(parsed.frequencyMap)
               built == buildHuffmanTree(frequencyMap, nodeIdCounter)
               paddingBits == IF parsed.paddingBits.t = "number"
                              THEN parsed.paddingBits.v ELSE 0
           IN /\ frequencies' = frequencyMap
              /\ tree' = built.tree
              /\ nodeIdCounter' = built.counter
              /\ restored' = decompress(parsed.compressedData, built.tree, paddingBits)
        /\ pc' = "restored"
  /\ UNCHANGED <<text, result, call, decoded, file, fileKind, parsed, codes>>
  /\ UNCHANGED steps
  /\ UNCHANGED ui

\* decompress(data, tr, paddingBits), for arguments of the caller's choosing.
DecompressAny ==
  /\ pc = "compressed"
  /\ \E data \in Payloads, tr \in {Null, result.tree}, paddingBits \in PaddingArgs :
       /\ call' = [compressedData |-> data, tree |-> tr, paddingBits |-> paddingBits]
       /\ decoded' = decompress(data, tr, paddingBits)
  /\ pc' = "decoded"
  /\ UNCHANGED <<text, result, file, fileKind, parsed, restored,
                 frequencies, tree, codes, nodeIdCounter>>
  /\ UNCHANGED steps
  /\ UNCHANGED ui

\* tree = buildHuffmanTree(frequencies)
BuildHuffmanTree ==
  /\ pc = "table"
  /\ tree' = buildHuffmanTree(frequencies, nodeIdCounter).tree
  /\ nodeIdCounter' = buildHuffmanTree(frequencies, nodeIdCounter).counter
  /\ pc' = "built"
  /\ UNCHANGED <<text, result, call, decoded, file, fileKind, parsed, restored,
                 frequencies, codes>>
  /\ UNCHANGED steps
  /\ UNCHANGED ui

\* codes = generateCodes(tree)
GenerateCodes ==
  /\ pc = "built"
  /\ codes' = generateCodes(tree)
  /\ pc' = "coded"
  /\ UNCHANGED <<text, result, call, decoded, file, fileKind, parsed, restored,
                 frequencies, tree, nodeIdCounter>>
  /\ UNCHANGED steps
  /\ UNCHANGED ui

\* ------------------------------------------------------------- specifications
\* A text is compressed, then decoded directly, or written to a file that is
\* parsed and decoded as the page does.
Init ==
  /\ pc = "input" /\ text \in Texts /\ frequencies = <<>>
  /\ Blank

Next ==
  \/ Compress
  \/ Decompress
  \/ CreateCompressedFile
  \/ Truncate
  \/ Replace
  \/ ParseCompressedFile
  \/ RebuildAndDecompress

Spec == Init /\ [][Next]_vars

\* A tree is built from a frequency table and its codes generated.
InitTree ==
  /\ pc = "table" /\ frequencies \in FrequencyTables /\ text = <<>>
  /\ Blank

NextTree ==
  \/ BuildHuffmanTree
  \/ GenerateCodes

SpecTree == InitTree /\ [][NextTree]_vars

\* A short text is compressed and decompress called with arbitrary arguments.
InitDecode ==
  /\ pc = "input" /\ text \in ShortTexts /\ frequencies = <<>>
  /\ Blank

NextDecode ==
  \/ Compress
  \/ DecompressAny

SpecDecode == InitDecode /\ [][NextDecode]_vars

\* ------------------------------------------------- buildHuffmanTree, by steps
\* buildHuffmanTree up to its merge loop: the counter is reset and the leaves
\* inserted; an empty table and a single character return here.
StartBuild ==
  /\ pc = "table"
  /\ LET start == ResetCounter(nodeIdCounter)
         leaves == InsertLeaves(frequencies, 1, <<>>, start)
         counter == start + Len(frequencies)
     IN IF Len(frequencies) = 0
        THEN /\ tree' = Null /\ heap' = <<>> /\ nodeIdCounter' = start
             /\ pc' = "built"
        ELSE IF Len(leaves) = 1
        THEN /\ tree' = Internal(extractMin(leaves).min, Null,
                                 extractMin(leaves).min.freq, counter)
             /\ heap' = extractMin(leaves).heap
             /\ nodeIdCounter' = counter + 1
             /\ pc' = "built"
        ELSE /\ tree' = tree /\ heap' = leaves /\ nodeIdCounter' = counter
             /\ pc' = "merging"
  /\ merges' = 0
  /\ last' = [op |-> "start", before |-> <<>>]
  /\ UNCHANGED <<text, result, call, decoded, file, fileKind, parsed, restored,
                 frequencies, codes, walk>>
  /\ UNCHANGED ui

\* One iteration of while (heap.size() > 1).
MergeIteration ==
  /\ pc = "merging" /\ Len(heap) > 1
  /\ LET s == MergeStep(heap, nodeIdCounter)
     IN /\ heap' = s.heap
        /\ nodeIdCounter' = s.counter
        /\ last' = [op |-> "merge", before |-> heap, left |-> s.left,
                    right |-> s.right, rest |-> s.rest, parent |-> s.parent]
  /\ merges' = merges + 1
  /\ UNCHANGED <<pc, text, result, call, decoded, file, fileKind, parsed, restored,
                 frequencies, tree, codes, walk>>
  /\ UNCHANGED ui

\* The loop is left and heap.extractMin() returned.
ReturnRoot ==
  /\ pc = "merging" /\ ~(Len(heap) > 1)
  /\ tree' = extractMin(heap).min
  /\ heap' = extractMin(heap).heap
  /\ last' = [op |-> "return", before |-> heap]
  /\ pc' = "built"
  /\ UNCHANGED <<text, result, call, decoded, file, fileKind, parsed, restored,
                 frequencies, codes, nodeIdCounter, merges, walk>>
  /\ UNCHANGED ui

\* A tree is built from a frequency table, one loop iteration at a time.
NextMerge ==
  \/ StartBuild
  \/ MergeIteration
  \/ ReturnRoot

SpecMerge == InitTree /\ [][NextMerge]_vars

\* ------------------------------------------------------- decompress, by steps
\* decompress up to its decoding loop, for result's tree and either result's
\* payload and paddingBits or, after a short text, a payload and paddingBits
\* of the caller's choosing: an empty payload or no tree returns here.
StartDecode ==
  /\ pc = "compressed"
  /\ \E data \in {result.compressedData}
                  \cup (IF Len(text) <= MaxShortLen THEN Payloads ELSE {}),
        paddingBits \in {result.paddingBits}
                        \cup (IF Len(text) <= MaxShortLen THEN PaddingArgs ELSE {}) :
       /\ call' = [compressedData |-> data, tree |-> result.tree,
                   paddingBits |-> paddingBits]
       /\ IF result.tree = Null \/ Len(data) = 0
          THEN /\ decoded' = [decompressedText |-> <<>>, success |-> TRUE]
               /\ walk' = walk
               /\ pc' = "decoded"
          ELSE /\ decoded' = decoded
               /\ walk' = [bits |-> RemovePadding(UnpackBytes(data), paddingBits),
                           pos |-> 1, currentNode |-> result.tree, result |-> <<>>]
               /\ pc' = "decoding"
  /\ last' = [op |-> "start", before |-> walk]
  /\ UNCHANGED <<text, result, file, fileKind, parsed, restored,
                 frequencies, tree, codes, nodeIdCounter, heap, merges>>
  /\ UNCHANGED ui

\* One iteration of for (const bit of binaryString). last.op tells whether
\* the iteration began in the single character case.
DecodeBit ==
  /\ pc = "decoding" /\ walk.pos <= Len(walk.bits)
  /\ LET step == BitStep(walk.bits[walk.pos], walk.currentNode, walk.result,
                         call.tree)
     IN IF step = Threw
        THEN /\ walk' = walk /\ pc' = "threw"
        ELSE /\ walk' = [walk EXCEPT !.pos = walk.pos + 1,
                                     !.currentNode = step.currentNode,
                                     !.result = step.result]
             /\ pc' = pc
  /\ last' = [op |-> IF IsWrapper(walk.currentNode) THEN "shortcut" ELSE "descend",
              before |-> walk]
  /\ UNCHANGED <<text, result, call, decoded, file, fileKind, parsed, restored,
                 frequencies, tree, codes, nodeIdCounter, heap, merges>>
  /\ UNCHANGED ui

\* The string is used up and { decompressedText: result, success: true }
\* returned.
FinishDecode ==
  /\ pc = "decoding" /\ walk.pos > Len(walk.bits)
  /\ decoded' = [decompressedText |-> walk.result, success |-> TRUE]
  /\ last' = [op |-> "return", before |-> walk]
  /\ pc' = "decoded"
  /\ UNCHANGED <<text, result, call, file, fileKind, parsed, restored,
                 frequencies, tree, codes, nodeIdCounter, heap, merges, walk>>
  /\ UNCHANGED ui

\* A text is compressed and decompress run on the outcome, one bit at a time.
NextWalk ==
  \/ Compress
  \/ StartDecode
  \/ DecodeBit
  \/ FinishDecode

SpecWalk == Init /\ [][NextWalk]_vars

\* ------------------------------------------------ buildHuffmanTree, call on call
\* The frequency tables of the texts.
BuildTables == {calculateFrequencies(t) : t \in Texts}

\* buildHuffmanTree(frequencies), in a module whose counter is where the
\* calls before left it.
BuildNext ==
  /\ pc \in {"idle", "built"}
  /\ \E table \in BuildTables :
       /\ frequencies' = table
       /\ tree' = buildHuffmanTree(table, nodeIdCounter).tree
       /\ nodeIdCounter' = buildHuffmanTree(table, nodeIdCounter).counter
  /\ last' = [op |-> "build", before |-> nodeIdCounter]
  /\ pc' = "built"
  /\ UNCHANGED <<text, result, call, decoded, file, fileKind, parsed, restored,
                 codes, heap, merges, walk>>
  /\ UNCHANGED ui

\* Trees are built one after another in one module.
InitBuilds ==
  /\ pc = "idle" /\ text = <<>> /\ frequencies = <<>>
  /\ Blank

NextBuilds == BuildNext

SpecBuilds == InitBuilds /\ [][NextBuilds]_vars

\* ------------------------------------------- decompress with a tree and any bytes
\* decompress(data, tree, paddingBits) for the tree last built and a payload
\* and paddingBits of the caller's choosing.
DecompressTree ==
  /\ pc = "built"
  /\ \E data \in Payloads, paddingBits \in PaddingArgs :
       /\ call' = [compressedData |-> data, tree |-> tree, paddingBits |-> paddingBits]
       /\ decoded' = decompress(data, tree, paddingBits)
  /\ pc' = "decoded"
  /\ UNCHANGED <<text, result, file, fileKind, parsed, restored,
                 frequencies, tree, codes, nodeIdCounter>>
  /\ UNCHANGED steps
  /\ UNCHANGED ui

\* A tree is built from the frequency table of a text and decompress called
\* with it.
InitTotal ==
  /\ pc = "table" /\ frequencies \in BuildTables /\ text = <<>>
  /\ Blank

NextTotal ==
  \/ BuildHuffmanTree
  \/ DecompressTree

SpecTotal == InitTotal /\ [][NextTotal]_vars

\* ---------------------------------------------------------------------- the page
\* Most file reads in flight at a time.
MaxPending == 2

\* File names, as the part before the extension and the extension.
TextFile(stem) == [stem |-> stem, ext |-> ".txt"]
HuffFile(stem) == [stem |-> stem, ext |-> ".huff"]

\* The files at the user's hand from the start: two texts, one of them empty;
\* a .huff file of three bytes and one whose metadata is {}; and a file that
\* is neither text nor .huff. The .huff files the page saves join them.
TextFileNames == {TextFile("a"), TextFile("e")}
HuffFileNames == {HuffFile("t"), HuffFile("f")}
OtherFile == [stem |-> "p", ext |-> ".png"]

\* What reader.readAsText gives for a text file.
FileText(name) ==
  CASE name.stem = "a" -> <<"a", "a", "1">>
    [] OTHER -> <<>>

\* What file.arrayBuffer() gives for a .huff file, saved is the files saved
\* so far.
FileBytes(name, saved) ==
  IF name \in DOMAIN saved THEN saved[name]
  ELSE CASE name.stem = "t" -> <<2, 0, 0>>
         [] OTHER -> Container(Stringify(JObject(<<>>)), <<0>>)

\* The two branches of the page's main element hold their FileUpload at
\* different places, so a change between idle and another mode unmounts the
\* one and mounts the other.
Remounted(modeBefore, modeAfter) == (modeBefore = "idle") # (modeAfter = "idle")

\* The reads left in flight; those of an unmounted FileUpload are no longer
\* live, their setError does nothing.
ReadsAfter(reads, modeAfter) ==
  IF Remounted(mode, modeAfter)
  THEN {[r EXCEPT !.live = FALSE] : r \in reads}
  ELSE reads

\* (size - compressedSize) / size * 100 as the exact fraction num / den; with
\* den = 0 the number is NaN or -Infinity.
PageRatio(size, compressedSize) ==
  [num |-> (size - compressedSize) * 100, den |-> size]

\* fileName?.replace('.txt', '.huff') || 'compressed.huff'
DownloadName(name) ==
  IF name = Null THEN HuffFile("compressed")
  ELSE IF name.ext = ".txt" THEN HuffFile(name.stem)
  ELSE name

\* fileName?.replace('.huff', '_decompressed.txt') || 'decompressed.txt'
DecompressedName(name) ==
  IF name = Null THEN TextFile("decompressed")
  ELSE IF name.ext = ".huff" THEN [stem |-> name.stem, ext |-> "_decompressed.txt"]
  ELSE name

\* handleFile, up to the start of the read: the upload zone is there while no
\* file name is set. A file that is neither .huff nor text sets the error.
PickFile ==
  /\ pc = "page" /\ fileName = Null /\ Cardinality(pending) < MaxPending
  /\ \E name \in TextFileNames \cup HuffFileNames \cup DOMAIN downloads
                  \cup {OtherFile} :
       IF name = OtherFile
       THEN /\ error' = JString("Please upload a .txt file or .huff compressed file")
            /\ pending' = pending
       ELSE /\ error' = Null
            /\ pending' = pending \cup {[name |-> name, live |-> TRUE]}
  /\ UNCHANGED <<pc, text, result, call, decoded, file, fileKind, parsed, restored,
                 frequencies, tree, codes, nodeIdCounter, heap, merges, walk, last,
                 fileName, originalText, compressionResult, decompressedText, mode,
                 downloads>>

\* reader.onload: handleFileSelect(content, name)
DeliverText ==
  /\ pc = "page"
  /\ \E read \in pending :
       /\ read.name.ext = ".txt"
       /\ LET content == FileText(read.name)
              modeAfter == IF Len(content) = 0 THEN mode ELSE "compressed"
          IN /\ originalText' = JString(content)
             /\ fileName' = read.name
             /\ decompressedText' = Null
             /\ IF Len(content) = 0
                THEN /\ last' = [op |-> "toast", message |-> "File is empty"]
                     /\ UNCHANGED <<compressionResult, mode, nodeIdCounter>>
                ELSE /\ compressionResult' = compress(content, nodeIdCounter)
                     /\ nodeIdCounter' =
                          buildHuffmanTree(calculateFrequencies(content),
                                           nodeIdCounter).counter
                     /\ mode' = "compressed"
                     /\ last' = [op |-> "toast",
                                 message |-> "File compressed successfully!"]
             /\ pending' = ReadsAfter(pending \ {read}, modeAfter)
             /\ error' = IF Remounted(mode, modeAfter) THEN Null ELSE error
  /\ UNCHANGED <<pc, text, result, call, decoded, file, fileKind, parsed, restored,
                 frequencies, tree, codes, heap, merges, walk,
                 downloads>>

\* file.arrayBuffer() resolved: handleCompressedFileSelect(data, name). An
\* exception after setFileName and setOriginalText leaves those two updates
\* queued, and they are applied. Object.keys of an undefined frequencyMap
\* throws; a frequencyMap of another type is outside the files at hand.
DeliverHuff ==
  /\ pc = "page"
  /\ \E read \in pending :
       /\ read.name.ext = ".huff"
       /\ \E parsedFile \in {parseCompressedFile(FileBytes(read.name, downloads))} :
            IF parsedFile = Null
            THEN /\ last' = [op |-> "toast",
                             message |-> "Invalid compressed file format"]
                 /\ pending' = pending \ {read}
                 /\ UNCHANGED <<fileName, originalText, decompressedText,
                                compressionResult, mode, nodeIdCounter, error>>
            ELSE /\ fileName' = read.name
                 /\ originalText' = Null
                 /\ IF parsedFile.frequencyMap = Undefined
                    THEN /\ last' = [op |-> "throw", message |-> "TypeError"]
                         /\ pending' = pending \ {read}
                         /\ UNCHANGED <<decompressedText, compressionResult, mode,
                                        nodeIdCounter, error>>
                    ELSE \E built \in {buildHuffmanTree(PlainMap(parsedFile.frequencyMap),
                                                        nodeIdCounter)},
                            paddingBits \in {IF parsedFile.paddingBits.t = "number"
                                             THEN parsedFile.paddingBits.v ELSE 0} :
                           /\ nodeIdCounter' = built.counter
                           /\ \E outcome \in {decompress(parsedFile.compressedData,
                                                          built.tree, paddingBits)} :
                                IF outcome = Threw
                                THEN /\ last' = [op |-> "throw", message |-> "TypeError"]
                                     /\ pending' = pending \ {read}
                                     /\ UNCHANGED <<decompressedText, compressionResult,
                                                    mode, error>>
                                ELSE IF outcome.success
                                THEN \E size \in {Len(TextEncode(outcome.decompressedText))} :
                                       /\ decompressedText' = JString(outcome.decompressedText)
                                       /\ compressionResult' =
                                            [compressedData |-> parsedFile.compressedData,
                                             codeMap |-> PlainMap(parsedFile.codeMap),
                                             originalSize |-> size,
                                             compressedSize |-> Len(parsedFile.compressedData),
                                             compressionRatio |->
                                               PageRatio(size, Len(parsedFile.compressedData)),
                                             tree |-> built.tree,
                                             frequencyMap |-> PlainMap(parsedFile.frequencyMap),
                                             paddingBits |-> paddingBits]
                                       /\ mode' = "decompressed"
                                       /\ last' = [op |-> "toast",
                                                   message |-> "File decompressed successfully!"]
                                       /\ pending' = ReadsAfter(pending \ {read}, "decompressed")
                                       /\ error' = IF Remounted(mode, "decompressed")
                                                   THEN Null ELSE error
                                ELSE /\ last' = [op |-> "toast",
                                                 message |-> "Decompression failed"]
                                     /\ pending' = pending \ {read}
                                     /\ UNCHANGED <<decompressedText, compressionResult,
                                                    mode, error>>
  /\ UNCHANGED <<pc, text, result, call, decoded, file, fileKind, parsed, restored,
                 frequencies, tree, codes, heap, merges, walk,
                 downloads>>

\* A read fails: reader.onerror sets the error of the FileUpload that started
\* the read, if it is still mounted; a rejected arrayBuffer() sets nothing.
ReadFails ==
  /\ pc = "page"
  /\ \E read \in pending :
       /\ pending' = pending \ {read}
       /\ error' = IF read.name.ext = ".txt" /\ read.live
                   THEN JString("Failed to read file") ELSE error
  /\ UNCHANGED <<pc, text, result, call, decoded, file, fileKind, parsed, restored,
                 frequencies, tree, codes, nodeIdCounter, heap, merges, walk, last,
                 fileName, originalText, compressionResult, decompressedText, mode,
                 downloads>>

\* handleReset, from the header's Reset button (shown unless idle) or the X of
\* the file card (shown while a file name is set).
HandleReset ==
  /\ pc = "page" /\ (mode # "idle" \/ fileName # Null)
  /\ fileName' = Null /\ originalText' = Null /\ compressionResult' = Null
  /\ decompressedText' = Null /\ mode' = "idle"
  /\ pending' = ReadsAfter(pending, "idle")
  /\ error' = IF Remounted(mode, "idle") THEN Null ELSE error
  /\ UNCHANGED <<pc, text, result, call, decoded, file, fileKind, parsed, restored,
                 frequencies, tree, codes, nodeIdCounter, heap, merges, walk, last,
                 downloads>>

\* handleDownload, from the Download .huff button (shown when compressed):
\* the browser saves the blob under a.download.
HandleDownload ==
  /\ pc = "page" /\ mode = "compressed" /\ compressionResult # Null
  /\ LET name == DownloadName(fileName)
         blob == createCompressedFile(compressionResult)
     IN /\ downloads' = [n \in DOMAIN downloads \cup {name} |->
                           IF n = name THEN blob ELSE downloads[n]]
        /\ last' = [op |-> "download", name |-> name]
  /\ UNCHANGED <<pc, text, result, call, decoded, file, fileKind, parsed, restored,
                 frequencies, tree, codes, nodeIdCounter, heap, merges, walk,
                 fileName, originalText, compressionResult, decompressedText, mode,
                 error, pending>>

\* handleDownloadDecompressed, from the Download .txt button (shown when
\* decompressed); an empty text is falsy and nothing is downloaded.
HandleDownloadDecompressed ==
  /\ pc = "page" /\ mode = "decompressed"
  /\ last' = IF decompressedText = Null \/ Len(decompressedText.v) = 0
             THEN [op |-> "none"]
             ELSE [op |-> "download", name |-> DecompressedName(fileName),
                   blob |-> TextEncode(decompressedText.v)]
  /\ UNCHANGED <<pc, text, result, call, decoded, file, fileKind, parsed, restored,
                 frequencies, tree, codes, nodeIdCounter, heap, merges, walk>>
  /\ UNCHANGED ui

\* The page: files are picked, their reads end in any order, and the buttons
\* are pressed.
InitPage ==
  /\ pc = "page" /\ text = <<>> /\ frequencies = <<>>
  /\ Blank

NextPage ==
  \/ PickFile
  \/ DeliverText
  \/ DeliverHuff
  \/ ReadFails
  \/ HandleReset
  \/ HandleDownload
  \/ HandleDownloadDecompressed

SpecPage == InitPage /\ [][NextPage]_vars

\* ------------------------------------------------------------ a MinHeap's calls
\* heap.insert(node), for a node that takes the next id.
HeapInsert ==
  /\ pc = "heap" /\ nodeIdCounter < MaxInserts
  /\ \E freq \in 1..MaxHeapFreq :
       LET node == Leaf("a", freq, nodeIdCounter)
       IN /\ heap' = insert(heap, node)
          /\ last' = [op |-> "insert", before |-> heap, node |-> node]
  /\ nodeIdCounter' = nodeIdCounter + 1
  /\ UNCHANGED <<pc, text, result, call, decoded, file, fileKind, parsed, restored,
                 frequencies, tree, codes, merges, walk>>
  /\ UNCHANGED ui

\* heap.extractMin()
HeapExtractMin ==
  /\ pc = "heap"
  /\ heap' = extractMin(heap).heap
  /\ last' = [op |-> "extractMin", before |-> heap, node |-> extractMin(heap).min]
  /\ UNCHANGED <<pc, text, result, call, decoded, file, fileKind, parsed, restored,
                 frequencies, tree, codes, nodeIdCounter, merges, walk>>
  /\ UNCHANGED ui

\* A MinHeap takes any sequence of insert and extractMin.
InitHeap ==
  /\ pc = "heap" /\ text = <<>> /\ frequencies = <<>>
  /\ Blank

NextHeap ==
  \/ HeapInsert
  \/ HeapExtractMin

SpecHeap == InitHeap /\ [][NextHeap]_vars

\* ---------------------------------------------------------------- properties
Symbols(str) == {str[i] : i \in 1..Len(str)}

Succeeded(r, str) == r = [decompressedText |-> str, success |-> TRUE]

IsPrefix(p, q) == Len(p) <= Len(q) /\ SubSeq(q, 1, Len(p)) = p

\* The sum over the symbols of the text of the lengths of their codes.
RECURSIVE TotalEncodedBits(_, _)
TotalEncodedBits(str, codeMap) ==
  IF Len(str) = 0 THEN 0
  ELSE Len(GetProp(codeMap, str[1])) + TotalEncodedBits(Tail(str), codeMap)

MetadataLength(r) == Len(TextEncode(Stringify(Metadata(r))))

\* C1. Round trip: for a non-empty text, decompress of the payload, tree and
\* paddingBits that compress returned succeeds and gives the text back, symbol
\* for symbol.
RoundTrip ==
  (pc = "decoded" /\ Len(text) > 0) => Succeeded(decoded, text)

RoundTripWitness ==
  /\ pc = "decoded" /\ Cardinality(Symbols(text)) >= 3
  /\ result.paddingBits > 0
  /\ Succeeded(decoded, text)

\* C2. Container round trip: for every text, the empty one too, parsing the
\* file createCompressedFile wrote succeeds and gives back the frequency map
\* (keys, counts and key order), paddingBits and payload of the result; the
\* tree rebuilt from the parsed frequency map is the encoder's tree, and
\* decoding with it gives the text back.
ContainerRoundTrip ==
  fileKind = "written" =>
    /\ pc # "threw"
    /\ pc \in {"parsed", "restored"} =>
         /\ parsed # Null
         /\ IsMapOf(parsed.frequencyMap, "number")
         /\ PlainMap(parsed.frequencyMap) = result.frequencyMap
         /\ parsed.paddingBits = JNumber(result.paddingBits)
         /\ parsed.compressedData = result.compressedData
    /\ pc = "restored" =>
         /\ frequencies = result.frequencyMap
         /\ tree = result.tree
         /\ Succeeded(restored, text)

ContainerRoundTripWitness ==
  /\ pc = "restored" /\ fileKind = "written"
  /\ Symbols(text) = Alphabet
  /\ Succeeded(restored, text)

\* C3. Prefix-free: in the code table of a tree built from a frequency table
\* no symbol's code is a prefix of, or equal to, another symbol's code.
PrefixFree ==
  pc = "coded" =>
    \A i, j \in 1..Len(codes) : i # j => ~IsPrefix(codes[i].val, codes[j].val)

PrefixFreeWitness ==
  /\ pc = "coded" /\ Len(codes) = Cardinality(TreeAlphabet)
  /\ \E i, j \in 1..Len(codes) : Len(codes[i].val) = 1 /\ Len(codes[j].val) = 4

\* C4. Padding bound: paddingBits is in 0..7, the encoded bits and the padding
\* together are a multiple of 8, and compressedSize is that many bits in bytes.
PaddingBound ==
  pc # "input" =>
    LET total == TotalEncodedBits(text, result.codeMap)
    IN /\ result.paddingBits \in 0..7
       /\ (total + result.paddingBits) % 8 = 0
       /\ result.compressedSize * 8 = total + result.paddingBits
       /\ result.compressedSize = Len(result.compressedData)

PaddingBoundWitness ==
  /\ pc = "compressed" /\ Len(text) > 0
  /\ TotalEncodedBits(text, result.codeMap) = 8
  /\ result.paddingBits = 0 /\ result.compressedSize = 1

\* C5. Single symbol: for a text of n >= 1 copies of one symbol s the code
\* table is {s: "0"}, the tree is an internal root with the leaf s on the left
\* and nothing on the right, and decoding the payload gives the n symbols back.
SingleSymbol ==
  (pc \in {"compressed", "decoded"} /\ Cardinality(Symbols(text)) = 1) =>
    /\ result.codeMap = <<[key |-> text[1], val |-> <<"0">>]>>
    /\ result.tree # Null
    /\ result.tree.char = NullChar
    /\ result.tree.right = Null
    /\ result.tree.left # Null
    /\ result.tree.left.char = text[1]
    /\ result.tree.left.left = Null /\ result.tree.left.right = Null
    /\ pc = "decoded" => Succeeded(decoded, text)

SingleSymbolWitness ==
  /\ pc = "decoded" /\ text = <<"a", "a", "a", "a">>
  /\ Succeeded(decoded, text)

\* C6. Empty input: compress of the empty text returns an empty payload, empty
\* tables, no tree, paddingBits 0, sizes 0 and ratio 0; decompress called with
\* no tree, or with an empty payload, returns the empty text and success,
\* whatever paddingBits is.
EmptyInput ==
  /\ (pc # "input" /\ Len(text) = 0) =>
       result = [compressedData |-> <<>>, codeMap |-> <<>>, originalSize |-> 0,
                 compressedSize |-> 0, compressionRatio |-> [num |-> 0, den |-> 1],
                 tree |-> Null, frequencyMap |-> <<>>, paddingBits |-> 0]
  /\ (pc = "decoded" /\ (call.tree = Null \/ Len(call.compressedData) = 0)) =>
       Succeeded(decoded, <<>>)

EmptyInputWitness ==
  /\ pc = "decoded" /\ Len(text) = 0
  /\ call.tree = Null /\ Len(call.compressedData) > 0 /\ call.paddingBits > 0
  /\ Succeeded(decoded, <<>>)

\* C7. Malformed buffer rejection: parseCompressedFile returns null for the
\* written file cut to fewer than 4 bytes or to fewer than 4 + metadataLength
\* bytes, and no exception leaves it, whatever the buffer.
TruncationRejected ==
  pc = "parsed" =>
    /\ parsed # Threw
    /\ (fileKind = "truncated"
        /\ (Len(file) < 4 \/ Len(file) < 4 + MetadataLength(result))) => parsed = Null

TruncationRejectedWitness ==
  /\ pc = "parsed" /\ fileKind = "truncated"
  /\ Len(file) >= 4 /\ Len(file) < 4 + MetadataLength(result)
  /\ parsed = Null

\* C8. Metadata validation: whenever parseCompressedFile returns an object,
\* its codeMap, paddingBits and frequencyMap are all there, with the types of
\* the record: it returns null for a metadata text that is not that record.
MetadataValidated ==
  (pc = "parsed" /\ parsed # Null) =>
    /\ IsMapOf(parsed.codeMap, "string")
    /\ parsed.paddingBits.t = "number"
    /\ IsMapOf(parsed.frequencyMap, "number")

\* C9. The code table and the frequency table of compress have the same keys:
\* each distinct symbol of the text has exactly one code, and no other symbol
\* has one.
SameKeys ==
  pc # "input" =>
    /\ KeySet(result.codeMap) = KeySet(result.frequencyMap)
    /\ KeySet(result.codeMap) = Symbols(text)
    /\ Len(result.codeMap) = Cardinality(Symbols(text))

SameKeysWitness ==
  /\ pc = "compressed" /\ Symbols(text) = Alphabet
  /\ KeySet(result.codeMap) = Alphabet

\* C10. A more frequent symbol never has a longer code: for symbols a, b of a
\* frequency table with F[a] > F[b], the code of a is no longer than the code
\* of b.
FrequentNotLonger ==
  pc = "coded" =>
    \A i, j \in 1..Len(frequencies) :
      frequencies[i].val > frequencies[j].val =>
        /\ HasProp(codes, frequencies[i].key) /\ HasProp(codes, frequencies[j].key)
        /\ Len(GetProp(codes, frequencies[i].key)) <= Len(GetProp(codes, frequencies[j].key))

FrequentNotLongerWitness ==
  /\ pc = "coded" /\ Len(frequencies) = Cardinality(TreeAlphabet)
  /\ \E i, j \in 1..Len(frequencies) :
       /\ frequencies[i].val > frequencies[j].val
       /\ Len(GetProp(codes, frequencies[i].key)) < Len(GetProp(codes, frequencies[j].key))

\* The paddingBits of compress is below 7, and 0 for a bit length that is a
\* multiple of 8.
PaddingBelowSeven ==
  pc # "input" =>
    /\ result.paddingBits \in 0..6
    /\ (TotalEncodedBits(text, result.codeMap) % 8 = 0 => result.paddingBits = 0)

\* C11. The paddingBits of compress is in 0..7, 7 included: it is 0 when the
\* encoded bit length is a multiple of 8, and otherwise what that length lacks
\* to the next multiple of 8.
PaddingRange ==
  pc # "input" =>
    LET total == TotalEncodedBits(text, result.codeMap)
    IN /\ result.paddingBits \in 0..7
       /\ (total % 8 = 0 => result.paddingBits = 0)
       /\ (total % 8 # 0 => result.paddingBits = 8 - (total % 8))

PaddingRangeWitness ==
  /\ pc = "compressed"
  /\ TotalEncodedBits(text, result.codeMap) % 8 = 1
  /\ result.paddingBits = 7

\* The sum of the counts of the entries of a table at the indices in S.
RECURSIVE Weight(_, _)
Weight(table, S) ==
  IF S = {} THEN 0
  ELSE LET i == CHOOSE x \in S : TRUE
       IN table[i].val + Weight(table, S \ {i})

MinOf(T) == CHOOSE x \in T : \A y \in T : x <= y

\* The least weighted path length of a strict binary tree whose leaves are the
\* entries of the table at the indices in S: a tree over two or more leaves
\* splits them into the leaves of its two subtrees, and each leaf is one edge
\* deeper than in its subtree.
RECURSIVE BestCost(_, _)
BestCost(table, S) ==
  IF Cardinality(S) <= 1 THEN 0
  ELSE LET i == CHOOSE x \in S : TRUE
           splits == {A \in SUBSET S : i \in A /\ A # S}
       IN Weight(table, S)
          + MinOf({BestCost(table, A) + BestCost(table, S \ A) : A \in splits})

\* The sum over the symbols of the table of count times code length.
CodeCost(table, codeMap) ==
  LET lengths == [i \in 1..Len(table) |->
                    [key |-> table[i].key,
                     val |-> table[i].val * Len(GetProp(codeMap, table[i].key))]]
  IN Weight(lengths, 1..Len(table))

\* C12. Optimality: for a frequency table of two or more symbols, the total
\* encoded length, the sum of count times code length, of the codes generated
\* from the tree built is the least weighted path length of any strict binary
\* tree over the table's symbols, whatever the ties between equal counts.
Optimal ==
  (pc = "coded" /\ Len(frequencies) >= 2) =>
    /\ KeySet(codes) = KeySet(frequencies)
    /\ CodeCost(frequencies, codes) = BestCost(frequencies, 1..Len(frequencies))

OptimalWitness ==
  /\ pc = "coded" /\ Len(frequencies) = Cardinality(TreeAlphabet)
  /\ \E i, j \in 1..Len(frequencies) :
       /\ i # j /\ frequencies[i].val = frequencies[j].val
       /\ Len(GetProp(codes, frequencies[i].key)) # Len(GetProp(codes, frequencies[j].key))
  /\ CodeCost(frequencies, codes) = BestCost(frequencies, 1..Len(frequencies))

\* The nodes of an array, as a set; ids make them distinct.
NodesOf(h) == {h[i] : i \in 1..Len(h)}

\* The number a node's id was made from: its place in the order of insertion.
Stamp(node) == node.id[2]

LeastFreq(h) == MinOf({h[i].freq : i \in 1..Len(h)})

\* extractMin returns, of the nodes of least frequency in the queue, the one
\* inserted first.
FifoOnTies ==
  (pc = "heap" /\ last # Null /\ last.op = "extractMin" /\ Len(last.before) > 0) =>
    /\ last.node.freq = LeastFreq(last.before)
    /\ \A n \in NodesOf(last.before) :
         n.freq = last.node.freq => Stamp(last.node) <= Stamp(n)

\* C13. After any sequence of insert and extractMin, extractMin returns a node
\* of least frequency in the queue, the one at index 0 of the array; which of
\* several nodes of that frequency it is follows from their places in the
\* array, and is not always the one inserted first.
MinOnTies ==
  (pc = "heap" /\ last # Null /\ last.op = "extractMin" /\ Len(last.before) > 0) =>
    /\ last.node = last.before[1]
    /\ last.node.freq = LeastFreq(last.before)

MinOnTiesWitness ==
  /\ pc = "heap" /\ last # Null /\ last.op = "extractMin" /\ Len(last.before) > 0
  /\ last.node.freq = LeastFreq(last.before)
  /\ \E n \in NodesOf(last.before) :
       n.freq = last.node.freq /\ Stamp(n) < Stamp(last.node)

\* Each element but the first is no less frequent than its parent.
HeapOrdered(h) ==
  \A i \in 1..(Len(h) - 1) : At(h, (i - 1) \div 2).freq <= At(h, i).freq

\* C14. Min-heap invariant: after every insert and every extractMin each
\* element at an index i > 0 has a frequency no less than that of its parent at
\* index floor((i-1)/2); extractMin of an empty queue returns null and leaves
\* it empty, and otherwise takes exactly one node out, the size going down by
\* 1; insert adds its node, the size going up by 1.
HeapInvariant ==
  pc = "heap" =>
    /\ HeapOrdered(heap)
    /\ (last # Null /\ last.op = "extractMin" /\ Len(last.before) = 0) =>
         last.node = Null /\ heap = <<>>
    /\ (last # Null /\ last.op = "extractMin" /\ Len(last.before) > 0) =>
         /\ Len(heap) = Len(last.before) - 1
         /\ last.node \in NodesOf(last.before)
         /\ NodesOf(heap) = NodesOf(last.before) \ {last.node}
    /\ (last # Null /\ last.op = "insert") =>
         /\ Len(heap) = Len(last.before) + 1
         /\ NodesOf(heap) = NodesOf(last.before) \cup {last.node}

HeapInvariantWitness ==
  /\ pc = "heap" /\ last # Null /\ last.op = "extractMin"
  /\ Len(last.before) >= 4
  /\ heap[1] # last.before[Len(last.before)]
  /\ Len(heap) = Len(last.before) - 1 /\ HeapOrdered(heap)

\* C15. Greedy merge step: in every iteration of the merge loop the two nodes
\* extracted are two of least frequency in the queue (left.freq <= right.freq
\* <= the frequency of every node that remains), the new internal node has the
\* children (left, right) in the order of extraction and the sum of their
\* frequencies and is inserted; for a table of A >= 2 symbols the loop ends
\* after exactly A - 1 iterations with one node in the queue, which is the
\* root returned.
GreedyMerge ==
  /\ (pc = "merging" /\ last.op = "merge") =>
       /\ last.left \in NodesOf(last.before) /\ last.right \in NodesOf(last.before)
       /\ last.left # last.right
       /\ NodesOf(last.rest) = NodesOf(last.before) \ {last.left, last.right}
       /\ last.left.freq <= last.right.freq
       /\ \A n \in NodesOf(last.rest) : last.right.freq <= n.freq
       /\ last.parent.left = last.left /\ last.parent.right = last.right
       /\ last.parent.char = NullChar
       /\ last.parent.freq = last.left.freq + last.right.freq
       /\ NodesOf(heap) = NodesOf(last.rest) \cup {last.parent}
       /\ Len(heap) = Len(last.before) - 1
  /\ pc = "merging" => Len(heap) = Len(frequencies) - merges
  /\ (pc = "built" /\ Len(frequencies) >= 2) =>
       /\ last.op = "return" /\ Len(last.before) = 1
       /\ tree = last.before[1] /\ heap = <<>>
       /\ merges = Len(frequencies) - 1
       /\ tree = buildHuffmanTree(frequencies, nodeIdCounter).tree

GreedyMergeWitness ==
  /\ pc = "merging" /\ last.op = "merge"
  /\ Len(frequencies) = Cardinality(TreeAlphabet) /\ merges = 3
  /\ last.left.char = NullChar /\ last.right.char # NullChar
  /\ last.left.freq = last.right.freq
  /\ last.parent \in NodesOf(heap)
  /\ Len(last.rest) = 1 /\ Len(heap) = 2

\* The leaves of a tree from left to right, as [char, freq] pairs.
RECURSIVE LeavesOf(_)
LeavesOf(node) ==
  IF node = Null THEN <<>>
  ELSE IF node.left = Null /\ node.right = Null
  THEN << [char |-> node.char, freq |-> node.freq] >>
  ELSE LeavesOf(node.left) \o LeavesOf(node.right)

\* Every node is a leaf with a symbol, or has two children and no symbol.
RECURSIVE IsStrictTree(_)
IsStrictTree(node) ==
  /\ node # Null
  /\ IF node.left = Null /\ node.right = Null
     THEN node.char # NullChar
     ELSE /\ node.char = NullChar
          /\ IsStrictTree(node.left) /\ IsStrictTree(node.right)

\* C16. Tree shape: buildHuffmanTree returns null exactly for the empty table;
\* for one symbol it returns an internal root with the leaf on the left and
\* nothing on the right; for A >= 2 symbols it returns a tree with exactly A
\* leaves, one per symbol of the table with the table's count, in which every
\* internal node has two children and no symbol. The root is never a leaf.
TreeShape ==
  pc \in {"built", "coded"} =>
    /\ (tree = Null) <=> (Len(frequencies) = 0)
    /\ Len(frequencies) = 1 =>
         /\ tree.char = NullChar /\ tree.right = Null
         /\ tree.left = Leaf(frequencies[1].key, frequencies[1].val, 0)
    /\ Len(frequencies) >= 2 =>
         /\ IsStrictTree(tree)
         /\ Len(LeavesOf(tree)) = Len(frequencies)
         /\ {<<l.char, l.freq>> : l \in NodesOf(LeavesOf(tree))}
              = {<<e.key, e.val>> : e \in NodesOf(frequencies)}
    /\ tree # Null => tree.char = NullChar /\ tree.left # Null

TreeShapeWitness ==
  /\ pc = "built" /\ Len(frequencies) = Cardinality(TreeAlphabet)
  /\ IsStrictTree(tree) /\ Len(LeavesOf(tree)) = Cardinality(TreeAlphabet)
  /\ tree.left.char # NullChar /\ tree.right.char = NullChar

\* Each internal node's frequency is the sum of its children's, an absent
\* child counting for nothing.
RECURSIVE Conserved(_)
Conserved(node) ==
  IF node = Null THEN TRUE
  ELSE IF node.left = Null /\ node.right = Null THEN TRUE
  ELSE /\ node.freq = (IF node.left = Null THEN 0 ELSE node.left.freq)
                      + (IF node.right = Null THEN 0 ELSE node.right.freq)
       /\ Conserved(node.left) /\ Conserved(node.right)

\* C17. Frequency conservation: in the tree buildHuffmanTree returns, each
\* internal node's frequency is the sum of its children's (for the single
\* symbol wrapper, its only child's), so the root's frequency is the sum of
\* the counts of the frequency table, which for the table of a text is the
\* number of symbols of the text.
FrequencyConserved ==
  /\ (pc # "input" /\ Len(text) > 0) =>
       /\ Conserved(result.tree)
       /\ result.tree.freq = Weight(result.frequencyMap, 1..Len(result.frequencyMap))
       /\ result.tree.freq = Len(text)
  /\ (pc = "restored" /\ tree # Null) =>
       /\ Conserved(tree)
       /\ tree.freq = Weight(frequencies, 1..Len(frequencies))

FrequencyConservedWitness ==
  /\ pc = "compressed" /\ Len(text) = MaxLen /\ Len(result.frequencyMap) = 3
  /\ result.tree.freq = MaxLen
  /\ result.tree.right.char = NullChar /\ result.tree.right.freq = 2
  /\ result.tree.left.freq = 2

\* The arguments of the last call of decompress are what compress returned.
OwnCall ==
  call = [compressedData |-> result.compressedData, tree |-> result.tree,
          paddingBits |-> result.paddingBits]

\* In the single character case the leaf's symbol is emitted and no bit of the
\* string is consumed.
ShortcutKeepsBit ==
  (pc = "decoding" /\ last.op = "shortcut") =>
    /\ walk.result = Append(last.before.result, last.before.currentNode.left.char)
    /\ walk.currentNode = last.before.currentNode
    /\ walk.pos = last.before.pos

\* C18. Decode shortcut: an iteration of the decoding loop that finds the
\* current node to be the single symbol wrapper (a left child that is a leaf,
\* no right child) emits the leaf's symbol without descending and without
\* looking at the bit's value, and the bit is consumed all the same: one
\* symbol is emitted per bit of the string, so the loop ends with as many
\* symbols as the string has bits.
ShortcutPerBit ==
  /\ (pc \in {"decoding", "threw"} /\ last.op = "shortcut") =>
       /\ pc = "decoding"
       /\ walk.result = Append(last.before.result, last.before.currentNode.left.char)
       /\ walk.currentNode = last.before.currentNode
       /\ walk.pos = last.before.pos + 1
  /\ (pc = "decoding" /\ IsWrapper(call.tree)) =>
       /\ walk.currentNode = call.tree
       /\ Len(walk.result) = walk.pos - 1
  /\ (pc = "decoded" /\ IsWrapper(call.tree) /\ Len(call.compressedData) > 0) =>
       /\ decoded.success
       /\ Len(decoded.decompressedText) = Len(walk.bits)
       /\ Symbols(decoded.decompressedText) \subseteq {call.tree.left.char}

ShortcutPerBitWitness ==
  /\ pc = "decoding" /\ last.op = "shortcut"
  /\ last.before.bits[last.before.pos] = "1"
  /\ walk.pos = last.before.pos + 1 /\ walk.pos >= 3
  /\ walk.result = Append(last.before.result, call.tree.left.char)

\* C19. Leaf boundary: when decompress runs on the payload, tree and
\* paddingBits compress returned for a non-empty text, the bit string left
\* after the padding is dropped has exactly the total of the code lengths of
\* the text's symbols, no iteration throws, and when the last bit is consumed
\* the walk is back at the root with the whole text emitted.
LeafBoundary ==
  (pc \in {"decoding", "threw", "decoded"} /\ Len(text) > 0 /\ OwnCall) =>
    /\ pc # "threw"
    /\ Len(walk.bits) = TotalEncodedBits(text, result.codeMap)
    /\ walk.pos > Len(walk.bits) =>
         /\ walk.currentNode = result.tree
         /\ walk.result = text
    /\ pc = "decoded" =>
         decoded = decompress(call.compressedData, call.tree, call.paddingBits)

LeafBoundaryWitness ==
  /\ pc = "decoded" /\ OwnCall /\ Len(text) = MaxLen
  /\ Cardinality(Symbols(text)) = 3
  /\ result.paddingBits = 2 /\ Len(walk.bits) = 6
  /\ walk.pos = 7 /\ walk.currentNode = result.tree
  /\ last.op = "return"

\* The nodes of a tree, the root included.
RECURSIVE AllNodes(_)
AllNodes(node) ==
  IF node = Null THEN {}
  ELSE {node} \cup AllNodes(node.left) \cup AllNodes(node.right)

RECURSIVE NodeCount(_)
NodeCount(node) ==
  IF node = Null THEN 0
  ELSE 1 + NodeCount(node.left) + NodeCount(node.right)

\* C20. Independent, deterministic builds: after any sequence of earlier
\* calls, buildHuffmanTree of a table returns the tree it returns in a module
\* just loaded, node ids included, the counter being reset at the start of
\* each call; within one tree all ids are distinct: the leaves have node_0 ..
\* node_{A-1} in key order and the internal nodes the numbers from A on in the
\* order of their creation, children before parents and the root last.
BuildsIndependent ==
  pc = "built" =>
    LET A == Len(frequencies)
        nodes == AllNodes(tree)
        internal == {n \in nodes : n.char = NullChar}
    IN /\ tree = buildHuffmanTree(frequencies, 0).tree
       /\ Cardinality({n.id : n \in nodes}) = NodeCount(tree)
       /\ \A i \in 1..A :
            Leaf(frequencies[i].key, frequencies[i].val, i - 1) \in nodes
       /\ {n.id : n \in internal}
            = {NodeId(k) : k \in A..(IF A = 1 THEN 1 ELSE 2 * A - 2)}
       /\ \A n \in internal :
            /\ n.left # Null => Stamp(n.left) < Stamp(n)
            /\ n.right # Null => Stamp(n.right) < Stamp(n)
       /\ nodeIdCounter = NodeCount(tree)

BuildsIndependentWitness ==
  /\ pc = "built" /\ last.before = 7
  /\ Len(frequencies) = 3 /\ tree.id = NodeId(4)
  /\ tree.left.id = NodeId(2) /\ tree.right.id = NodeId(3)

\* The bits decompress decodes: those of the payload without the padding.
CallBits == RemovePadding(UnpackBytes(call.compressedData), call.paddingBits)

\* The bits left when the codes of the decoded symbols are taken off the front.
Leftover(bits, out, codeMap) ==
  SubSeq(bits, Len(EncodeText(out, codeMap)) + 1, Len(bits))

\* C21. decompress is total and never reports a failure: for the tree
\* buildHuffmanTree returns for a frequency table, any byte sequence and any
\* paddingBits, decompress throws nothing and returns success = true. With no
\* tree or no bytes the text is empty; with the single symbol wrapper it has
\* one symbol per bit; otherwise it is the symbols of the complete codes the
\* bits begin with, and bits that end inside a code are dropped without a
\* word.
DecompressTotal ==
  pc = "decoded" =>
    IF decoded = Threw THEN FALSE
    ELSE /\ decoded.success = TRUE
         /\ LET out == decoded.decompressedText
                codeMap == generateCodes(call.tree)
            IN IF call.tree = Null \/ Len(call.compressedData) = 0
               THEN out = <<>>
               ELSE IF IsWrapper(call.tree)
               THEN Len(out) = Len(CallBits)
               ELSE /\ IsPrefix(EncodeText(out, codeMap), CallBits)
                    /\ \A i \in 1..Len(codeMap) :
                         /\ ~IsPrefix(codeMap[i].val, Leftover(CallBits, out, codeMap))
                    /\ \E i \in 1..Len(codeMap) :
                         IsPrefix(Leftover(CallBits, out, codeMap), codeMap[i].val)

DecompressTotalWitness ==
  /\ pc = "decoded" /\ decoded # Threw /\ decoded.success = TRUE
  /\ Len(frequencies) = 3 /\ call.paddingBits = 3
  /\ Len(decoded.decompressedText) >= 2
  /\ Len(Leftover(CallBits, decoded.decompressedText, generateCodes(call.tree))) = 1

\* C22. Page state: after any sequence of handleFileSelect,
\* handleCompressedFileSelect and handleReset, in whatever order the file reads
\* end, mode is idle exactly when compressionResult is null, and in mode
\* compressed the compressionResult is compress(originalText), originalText is
\* the text of the file fileName names, and the .huff offered for download is
\* the one of that file.
PageConsistent ==
  pc = "page" =>
    /\ (mode = "idle") <=> (compressionResult = Null)
    /\ mode = "compressed" =>
         /\ originalText # Null /\ fileName \in TextFileNames
         /\ originalText.v = FileText(fileName)
         /\ compressionResult = compress(originalText.v, nodeIdCounter)
         /\ createCompressedFile(compressionResult)
              = createCompressedFile(compress(FileText(fileName), nodeIdCounter))

====
